---- MODULE Spec2Model ----
(***************************************************************************)
(* Judging engine of crab-code (apps/server/src/services/judge.rs).        *)
(*                                                                         *)
(* A lane is the task spawned by queue_submission.  It runs                *)
(* execute_submission_internal; every await on a store and every blocking  *)
(* call on the process layer is one step of the lane.                      *)
(*                                                                         *)
(* Texts are sequences of symbols (characters for program output, words    *)
(* for diagnostics).  Option<T> is a sequence of length 0 (None) or 1      *)
(* (Some).  The source code of a submission is represented by what it      *)
(* does: the outcome of the compiler on it and, per test case, the         *)
(* behaviour of the program on that test case's input.                     *)
(***************************************************************************)
EXTENDS Integers, Sequences, FiniteSets, TLC

VARIABLES
    submissions,      \* Submission Store: id -> row
    test_cases,       \* Test Case Store: rows of the problem, in created_at order
    execution_logs,   \* Execution Log Store: the rows of the table
    lanes,            \* the tasks spawned by queue_submission, in spawn order
    workspaces,       \* temporary directories that exist on disk
    processes         \* child processes spawned by a Run Stage and not reaped

vars == <<submissions, test_cases, execution_logs, lanes, workspaces, processes>>

(***************************************************************************)
(* Bounds                                                                  *)
(***************************************************************************)
MaxTests == 3       \* test cases of the problem
MaxLanes == 1       \* calls of queue_submission
OverRun == 1        \* ms by which a slow program exceeds the time limit
MaxCalls == 2       \* calls of queue_submission for one submission
MaxExpectedLen == 2 \* characters of an expected output drawn for the comparator
MaxActualLen == 3   \* characters of a program output drawn for the comparator

(***************************************************************************)
(* Option and text helpers                                                 *)
(***************************************************************************)
None == <<>>

Some(x) == <<x>>

Max(a, b) == IF a >= b THEN a ELSE b

Whitespace == {" ", "\n", "\r", "\t"}

RECURSIVE TrimStart(_)
TrimStart(s) ==
    IF s = <<>> THEN s
    ELSE IF Head(s) \in Whitespace THEN TrimStart(Tail(s)) ELSE s

RECURSIVE TrimEnd(_)
TrimEnd(s) ==
    IF s = <<>> THEN s
    ELSE IF s[Len(s)] \in Whitespace THEN TrimEnd(SubSeq(s, 1, Len(s) - 1)) ELSE s

Trim(s) == TrimEnd(TrimStart(s))

IsNotCR(c) == c # "\r"

RemoveCR(s) == SelectSeq(s, IsNotCR)

\* a comparison of the texts as they are
compare_exact(expected, actual) == expected = actual

\* a comparison that trims and keeps the carriage returns
compare_trimmed(expected, actual) == Trim(expected) = Trim(actual)

compare_output(expected, actual) == RemoveCR(Trim(expected)) = RemoveCR(Trim(actual))

TimeoutMarker == <<"Time", "limit", "exceeded">>

ContainsAnywhere(s, sub) ==
    \E k \in 0..(Len(s) - Len(sub)) : SubSeq(s, k + 1, k + Len(sub)) = sub

\* a prefix test in place of the substring test
ContainsAtStart(s, sub) == Len(s) >= Len(sub) /\ SubSeq(s, 1, Len(sub)) = sub

Contains(s, sub) == ContainsAnywhere(s, sub)

(***************************************************************************)
(* Language Descriptor Store                                               *)
(***************************************************************************)
LanguageStore == {"python", "c", "ruby"}

LanguageNames == LanguageStore \cup {"cobol"}

\* the language check answering yes for every name
ExistsAlways(name) == TRUE

exists(name) == name \in LanguageStore

LanguageConfigFrom(name) ==
    CASE name = "python" ->
            [compile_command |-> None,
             execute_command |-> "python3 solution.py",
             time_limit |-> 5000, memory_limit |-> 256 * 1024]
      [] name = "c" ->
            [compile_command |-> Some("gcc -o solution solution.c"),
             execute_command |-> "./solution",
             time_limit |-> 3000, memory_limit |-> 256 * 1024]
      [] OTHER ->
            [compile_command |-> None,
             execute_command |-> "echo",
             time_limit |-> 5000, memory_limit |-> 256 * 1024]

get_language_config(name) ==
    IF name \in LanguageStore THEN Some(LanguageConfigFrom(name)) ELSE None

(***************************************************************************)
(* Inputs: what the submitted code does                                    *)
(***************************************************************************)
InputData == <<"5">>

ExpectedOutput == <<"5", "\n">>

\* behaviour of the user program on one test case: how long the child runs
\* (slow: longer than the time limit), what it prints, how it exits
\* (code = None: killed by a signal)
RunBehaviours ==
    { [slow |-> FALSE, ms |-> 7, stdout |-> <<"5", "\r", "\n">>, stderr |-> <<>>, code |-> Some(0)],
      [slow |-> FALSE, ms |-> 0, stdout |-> <<"6", "\n">>, stderr |-> <<"warning">>, code |-> Some(0)],
      [slow |-> FALSE, ms |-> 7, stdout |-> <<>>, stderr |-> <<>>, code |-> Some(1)],
      [slow |-> FALSE, ms |-> 7, stdout |-> <<"4">>, stderr |-> <<"fatal:", "Time", "limit", "exceeded">>, code |-> Some(2)],
      [slow |-> FALSE, ms |-> 7, stdout |-> <<>>, stderr |-> <<"Killed">>, code |-> None],
      [slow |-> TRUE, ms |-> 0, stdout |-> <<"5", "\n">>, stderr |-> <<>>, code |-> Some(0)] }

\* a program that never exits (ms < 0: no instant at which the child ends)
Hanging == [slow |-> TRUE, ms |-> -1, stdout |-> <<>>, stderr |-> <<>>, code |-> None]

NeverExits(b) == b.ms < 0

DefaultBehaviour == [slow |-> FALSE, ms |-> 7, stdout |-> <<"5", "\r", "\n">>, stderr |-> <<>>, code |-> Some(0)]

\* outcome of the compile command on the code: exit status and stderr
CompileOk == [status |-> 0, stderr |-> <<>>]

CompileFailures ==
    { [status |-> 1, stderr |-> <<>>],
      [status |-> 1, stderr |-> <<"solution.c:1:", "error">>],
      [status |-> 1, stderr |-> <<"cc1:", "Time", "limit", "exceeded">>] }

\* the program gets through the test case: it exits with 0 and prints the answer
Solves(b) == b.code = Some(0) /\ RemoveCR(Trim(b.stdout)) = RemoveCR(Trim(ExpectedOutput))

\* the programs a submission in language lang may hold, for n test cases.  Of
\* the programs that differ only on test cases created after the first one they
\* do not solve, one is kept: the one that solves them.  A program that
\* overruns the time limit does so on the test case created first.
Codes(lang, n) ==
    IF lang \notin {"python", "c"}
    THEN { [compile |-> CompileOk, run |-> [t \in 1..n |-> DefaultBehaviour]] }
    ELSE { [compile |-> CompileOk, run |-> r] :
             r \in { q \in [1..n -> RunBehaviours] :
                       \A t \in 1..n :
                          /\ (\E u \in 1..(t - 1) : ~Solves(q[u])) => (q[t] = DefaultBehaviour)
                          /\ q[t].slow => (t = 1) } }
         \cup (IF lang = "c"
               THEN { [compile |-> c, run |-> [t \in 1..n |-> DefaultBehaviour]] : c \in CompileFailures }
               ELSE {})

\* what the run command of the language does on test case t
RunOf(lang, code, t) ==
    IF lang \in {"python", "c"}
    THEN code.run[t]
    ELSE [slow |-> FALSE, ms |-> 0, stdout |-> <<"Unsupported language: ", lang, "\n">>,
          stderr |-> <<>>, code |-> Some(0)]

SubmissionIds == {"s1", "s2"}

(***************************************************************************)
(* Stores                                                                  *)
(***************************************************************************)
\* repositories/submission.rs create: the row is inserted with status wrong_answer
CreatedSubmission(lang, code) ==
    [problem_id |-> "p1", language_id |-> lang, code |-> code,
     status |-> "WrongAnswer", execution_time |-> None, memory_used |-> None,
     error_message |-> None]

find_by_id(id) == IF id \in DOMAIN submissions THEN Some(submissions[id]) ELSE None

\* an update that sets the verdict and the message and leaves the measures
update_status_partial(subs, id, status, execution_time, memory_used, error_message) ==
    IF id \in DOMAIN subs
    THEN [subs EXCEPT ![id] = [@ EXCEPT !.status = status, !.error_message = error_message]]
    ELSE subs

\* an update that leaves a row alone once it holds a result
update_status_once(subs, id, status, execution_time, memory_used, error_message) ==
    IF id \in DOMAIN subs /\ subs[id].status = "WrongAnswer" /\ subs[id].error_message = None
    THEN [subs EXCEPT ![id] = [@ EXCEPT !.status = status,
                                        !.execution_time = execution_time,
                                        !.memory_used = memory_used,
                                        !.error_message = error_message]]
    ELSE subs

\* UPDATE submissions SET ... WHERE id = $1
update_status(subs, id, status, execution_time, memory_used, error_message) ==
    IF id \in DOMAIN subs
    THEN [subs EXCEPT ![id] = [@ EXCEPT !.status = status,
                                        !.execution_time = execution_time,
                                        !.memory_used = memory_used,
                                        !.error_message = error_message]]
    ELSE subs

IsSample(tc) == tc.is_sample

IsHidden(tc) == ~tc.is_sample

\* the rows of the problem in creation order only
find_by_created_at(problem_id) ==
    LET OfProblem(tc) == tc.problem_id = problem_id
    IN SelectSeq(test_cases, OfProblem)

\* SELECT ... WHERE problem_id = $1 ORDER BY is_sample DESC, created_at ASC
find_by_problem(problem_id) ==
    LET OfProblem(tc) == tc.problem_id = problem_id
        rows == SelectSeq(test_cases, OfProblem)
    IN SelectSeq(rows, IsSample) \o SelectSeq(rows, IsHidden)

\* a write that replaces the rows of the table
replace_execution_logs(logs, row) == {row}

\* INSERT INTO execution_logs ... RETURNING id, ...
create_execution_log(logs, row) == logs \cup {row}

(***************************************************************************)
(* Lanes                                                                   *)
(***************************************************************************)
NoResult == [ok |-> TRUE, stdout |-> <<>>, stderr |-> <<>>, execution_time |-> 0,
             memory_used |-> 0, exit_code |-> 0, msg |-> <<>>]

\* a call that looks the submission up before it answers
QueueResultChecked(id) == IF id \in DOMAIN submissions THEN "Ok" ELSE "Err"

\* what queue_submission returns to its caller: line 444, reached as soon as
\* the task is spawned
QueueResult(id) == "Ok"

NewLane(id) ==
    [submission_id |-> id, pc |-> "find_submission",
     i |-> 0, passed_tests |-> 0, max_execution_time |-> 0, max_memory_used |-> 0,
     overall_status |-> "Accepted", error_message |-> None,
     result |-> NoResult, passed |-> FALSE, elapsed |-> 0, err |-> None,
     \* history of the lane
     trace |-> <<>>, compiles |-> 0, runs |-> 0, log_ids |-> <<>>, writes |-> <<>>,
     \* what the call that spawned the lane returned, and the store call of
     \* the run that returned an error, if any
     returned |-> QueueResult(id), failed_at |-> ""]

LaneIds == 1..Len(lanes)

Sub(l) == submissions[lanes[l].submission_id]

TestsOf(l) == find_by_problem(Sub(l).problem_id)

CurrentTest(l) == TestsOf(l)[lanes[l].i + 1]

ConfigOf(l) == LanguageConfigFrom(Sub(l).language_id)

\* a directory named after the test case only
AttemptIdShared(l) == <<1, lanes[l].i + 1>>

AttemptId(l) == <<l, lanes[l].i + 1>>

\* the id of the next row the lane inserts: ids are unique, here the lane and
\* the number of the row among the rows of the lane
NextRowId(l) == <<l, Len(lanes[l].log_ids) + 1>>

\* the is_sample flags of the n test cases: all samples, or the oldest one hidden
SampleFlags(n) == { [t \in 1..n |-> TRUE], [t \in 1..n |-> t # 1] }

Init ==
    /\ \E n \in 0..MaxTests, lang \in LanguageNames :
         /\ \E flags \in SampleFlags(n) :
              test_cases = [t \in 1..n |->
                              [id |-> t, problem_id |-> "p1", input_data |-> InputData,
                               expected_output |-> ExpectedOutput, is_sample |-> flags[t]]]
         /\ \E code \in Codes(lang, n) :
              submissions = [s \in {"s1"} |-> CreatedSubmission(lang, code)]
    /\ execution_logs = {}
    /\ lanes = <<>>
    /\ workspaces = {}
    /\ processes = {}

\* queue_submission: spawn the lane and return Ok at once (lines 412-446)
queue_submission(id) ==
    /\ Len(lanes) < MaxLanes
    /\ lanes' = Append(lanes, NewLane(id))
    /\ UNCHANGED <<submissions, test_cases, execution_logs, workspaces, processes>>

\* lines 177-181
find_submission(l) ==
    /\ lanes[l].pc = "find_submission"
    /\ lanes' = [lanes EXCEPT ![l] =
                    IF find_by_id(@.submission_id) = None
                    THEN [@ EXCEPT !.pc = "failed",
                                   !.err = Some(<<"Service error: ", "Not found: ", "Submission not found">>)]
                    ELSE [@ EXCEPT !.pc = "validate_language"]]
    /\ UNCHANGED <<submissions, test_cases, execution_logs, workspaces, processes>>

PreflightRow(l, error_msg) ==
    [id |-> NextRowId(l),
     submission_id |-> lanes[l].submission_id, language |-> Sub(l).language_id,
     execution_time |-> None, memory_used |-> None, exit_code |-> None,
     stdout |-> None, stderr |-> Some(error_msg), status |-> "RuntimeError",
     error_message |-> Some(error_msg)]

UnsupportedMsg(l) == <<"Unsupported language: ", Sub(l).language_id>>

NoTestCasesMsg == <<"No test cases found for this problem">>

\* lines 183-188
validate_language(l) ==
    /\ lanes[l].pc = "validate_language"
    /\ lanes' = [lanes EXCEPT ![l].pc =
                    IF ~exists(Sub(l).language_id) THEN "log_unsupported" ELSE "find_test_cases"]
    /\ UNCHANGED <<submissions, test_cases, execution_logs, workspaces, processes>>

\* lines 189-210
log_unsupported(l) ==
    /\ lanes[l].pc = "log_unsupported"
    /\ execution_logs' = create_execution_log(execution_logs, PreflightRow(l, UnsupportedMsg(l)))
    /\ lanes' = [lanes EXCEPT ![l].pc = "update_unsupported",
                              ![l].log_ids = Append(@, NextRowId(l))]
    /\ UNCHANGED <<submissions, test_cases, workspaces, processes>>

\* what a lane hands to update_status
StatusWrite(status, execution_time, memory_used, error_message) ==
    [status |-> status, execution_time |-> execution_time, memory_used |-> memory_used,
     error_message |-> error_message]

\* lines 212-223
update_unsupported(l) ==
    /\ lanes[l].pc = "update_unsupported"
    /\ submissions' = update_status(submissions, lanes[l].submission_id, "RuntimeError",
                                    None, None, Some(UnsupportedMsg(l)))
    /\ lanes' = [lanes EXCEPT ![l].pc = "done",
                              ![l].writes = Append(@, StatusWrite("RuntimeError", None, None,
                                                                  Some(UnsupportedMsg(l))))]
    /\ UNCHANGED <<test_cases, execution_logs, workspaces, processes>>

\* the empty check never taken
NoTestCasesIgnored(tcs) == FALSE

NoTestCases(tcs) == Len(tcs) = 0

\* lines 226-232
find_test_cases(l) ==
    /\ lanes[l].pc = "find_test_cases"
    /\ lanes' = [lanes EXCEPT ![l].pc =
                    IF NoTestCases(TestsOf(l)) THEN "log_no_tests" ELSE "get_config"]
    /\ UNCHANGED <<submissions, test_cases, execution_logs, workspaces, processes>>

\* lines 233-250
log_no_tests(l) ==
    /\ lanes[l].pc = "log_no_tests"
    /\ execution_logs' = create_execution_log(execution_logs, PreflightRow(l, NoTestCasesMsg))
    /\ lanes' = [lanes EXCEPT ![l].pc = "update_no_tests",
                              ![l].log_ids = Append(@, NextRowId(l))]
    /\ UNCHANGED <<submissions, test_cases, workspaces, processes>>

\* lines 252-263
update_no_tests(l) ==
    /\ lanes[l].pc = "update_no_tests"
    /\ submissions' = update_status(submissions, lanes[l].submission_id, "RuntimeError",
                                    None, None, Some(NoTestCasesMsg))
    /\ lanes' = [lanes EXCEPT ![l].pc = "done",
                              ![l].writes = Append(@, StatusWrite("RuntimeError", None, None,
                                                                  Some(NoTestCasesMsg)))]
    /\ UNCHANGED <<test_cases, execution_logs, workspaces, processes>>

UnsupportedLanguageErr(lang) == <<"Judge error: ", "Unsupported language: ", lang>>

\* the text of a std::io::Error
IoError == "io error"

SystemErr(what) == <<"Judge error: ", "System error: ", what>>

\* lines 266-277: the descriptor is fetched and the aggregator starts in Accepted
get_config(l) ==
    /\ lanes[l].pc = "get_config"
    /\ lanes' = [lanes EXCEPT ![l] =
                    IF get_language_config(Sub(l).language_id) = None
                    THEN [@ EXCEPT !.pc = "failed",
                                   !.err = Some(UnsupportedLanguageErr(Sub(l).language_id))]
                    ELSE [@ EXCEPT !.pc = IF Len(TestsOf(l)) > 0 THEN "acquire" ELSE "final_update",
                                   !.i = 0, !.passed_tests = 0,
                                   !.max_execution_time = 0, !.max_memory_used = 0,
                                   !.overall_status = "Accepted", !.error_message = None]]
    /\ UNCHANGED <<submissions, test_cases, execution_logs, workspaces, processes>>

(***************************************************************************)
(* The loop body after execute_with_timeout has returned (lines 296-343)   *)
(***************************************************************************)
Err(msg) == [NoResult EXCEPT !.ok = FALSE, !.msg = msg]

Ok(stdout, stderr, execution_time, memory_used, exit_code) ==
    [ok |-> TRUE, stdout |-> stdout, stderr |-> stderr, execution_time |-> execution_time,
     memory_used |-> memory_used, exit_code |-> exit_code, msg |-> <<>>]

\* the stderr of the attempt, also when it is empty
RuntimeErrorMsgStderr(r) == r.stderr

RuntimeErrorMsg(r) ==
    IF r.stderr = <<>>
    THEN <<"Runtime error (exit code: ", ToString(r.exit_code), ")">>
    ELSE r.stderr

\* the verdict state machine: ln is the lane, r what the attempt returned,
\* expected the expected output of the test case of the attempt
Aggregate(ln, r, expected) ==
    IF ~r.ok
    THEN [ln EXCEPT !.overall_status = "RuntimeError",
                    !.error_message = Some(<<"Execution error: ">> \o r.msg),
                    !.pc = "final_update"]
    ELSE LET m == [ln EXCEPT !.max_execution_time = Max(@, r.execution_time),
                             !.max_memory_used = Max(@, r.memory_used)]
         IN IF r.exit_code # 0
            THEN IF Contains(r.stderr, TimeoutMarker)
                 THEN [m EXCEPT !.overall_status = "TimeLimitExceeded",
                                !.error_message = Some(TimeoutMarker),
                                !.pc = "final_update"]
                 ELSE [m EXCEPT !.overall_status = "RuntimeError",
                                !.error_message = Some(RuntimeErrorMsg(r)),
                                !.pc = "final_update"]
            ELSE LET passed == compare_output(expected, r.stdout)
                 IN IF passed
                    THEN [m EXCEPT !.passed_tests = @ + 1, !.passed = TRUE,
                                   !.result = r, !.pc = "log_test_case"]
                    ELSE IF m.overall_status = "Accepted"
                    THEN [m EXCEPT !.overall_status = "WrongAnswer",
                                   !.error_message = Some(<<"Wrong answer">>),
                                   !.passed = FALSE, !.result = r, !.pc = "log_test_case"]
                    ELSE [m EXCEPT !.passed = FALSE, !.result = r, !.pc = "log_test_case"]

\* execute_with_timeout returns r for the current test case; kind names the exit path
Return(l, ln, kind, r) ==
    LET traced == [ln EXCEPT !.trace = Append(@, [test |-> ln.i + 1, kind |-> kind, res |-> r,
                                                  elapsed |-> ln.elapsed]),
                             !.elapsed = 0]
    IN lanes' = [lanes EXCEPT ![l] = Aggregate(traced, r, CurrentTest(l).expected_output)]

(***************************************************************************)
(* execute_with_timeout (lines 88-164)                                     *)
(***************************************************************************)
\* a directory that is left behind
KeepTempDir(ws, id) == ws

\* TempDir is removed when it goes out of scope
DropTempDir(ws, id) == ws \ {id}

\* lines 96-104: the descriptor is fetched again and the workspace created
acquire_workspace(l, io_ok) ==
    /\ lanes[l].pc = "acquire"
    /\ IF get_language_config(Sub(l).language_id) = None
       THEN /\ Return(l, lanes[l], "config_error", Err(UnsupportedLanguageErr(Sub(l).language_id)))
            /\ UNCHANGED workspaces
       ELSE IF ~io_ok
       THEN /\ Return(l, lanes[l], "system_error", Err(SystemErr(IoError)))
            /\ UNCHANGED workspaces
       ELSE /\ workspaces' = workspaces \cup {AttemptId(l)}
            /\ lanes' = [lanes EXCEPT ![l].pc = "compile"]
    /\ UNCHANGED <<submissions, test_cases, execution_logs, processes>>

\* compile_code (lines 50-86) and its caller (lines 106-109): the source is
\* written, the compile command, if any, is run to completion
compile_code(l, io_ok) ==
    /\ lanes[l].pc = "compile"
    /\ IF ~io_ok
       THEN /\ Return(l, lanes[l], "system_error", Err(SystemErr(IoError)))
            /\ workspaces' = DropTempDir(workspaces, AttemptId(l))
       ELSE IF ConfigOf(l).compile_command # None
       THEN IF Sub(l).code.compile.status # 0
            THEN /\ Return(l, [lanes[l] EXCEPT !.compiles = @ + 1], "compile_error",
                           Ok(<<>>, Sub(l).code.compile.stderr, 0, 0, 1))
                 /\ workspaces' = DropTempDir(workspaces, AttemptId(l))
            ELSE /\ lanes' = [lanes EXCEPT ![l].pc = "spawn", ![l].compiles = @ + 1]
                 /\ UNCHANGED workspaces
       ELSE /\ lanes' = [lanes EXCEPT ![l].pc = "spawn"]
            /\ UNCHANGED workspaces
    /\ UNCHANGED <<submissions, test_cases, execution_logs, processes>>

\* the await of the execution future in timeout() (lines 114-139): the block
\* holds blocking calls only and no await, so once polled it runs to its end
ExecutionFutureYields == FALSE

\* tokio::time::timeout polls the future first; the deadline is looked at only
\* when the future has yielded
TimeoutElapsed(elapsed, time_limit) == ExecutionFutureYields /\ elapsed >= time_limit

\* lines 147-153
TimeoutResult(time_limit) == Ok(<<>>, TimeoutMarker, time_limit, 0, 124)

Behaviour(l) == RunOf(Sub(l).language_id, Sub(l).code, CurrentTest(l).id)

Duration(l) == IF Behaviour(l).slow THEN ConfigOf(l).time_limit + OverRun ELSE Behaviour(l).ms

\* the instants at which a lane waiting for a child is looked at: the
\* deadline, and the instant at which the child exits
TimePoints(l) == {ConfigOf(l).time_limit, Duration(l)}

NextInstant(l) ==
    CHOOSE t \in TimePoints(l) :
        /\ t > lanes[l].elapsed
        /\ \A u \in TimePoints(l) : u > lanes[l].elapsed => t <= u

\* output.status.code().unwrap_or(-1)
ExitCode(code) == IF code = None THEN -1 ELSE code[1]

\* lines 112-131: the child is spawned and the input written to its stdin
spawn_child(l, io) ==
    /\ lanes[l].pc = "spawn"
    /\ CASE io = "spawn_failed" ->
              /\ Return(l, lanes[l], "system_error", Err(SystemErr(IoError)))
              /\ UNCHANGED processes
         [] io = "stdin_failed" ->
              \* the Child is dropped: neither killed nor waited for
              /\ Return(l, [lanes[l] EXCEPT !.runs = @ + 1], "system_error", Err(SystemErr(IoError)))
              /\ processes' = processes \cup {AttemptId(l)}
         [] OTHER ->
              /\ lanes' = [lanes EXCEPT ![l].pc = "running", ![l].runs = @ + 1, ![l].elapsed = 0]
              /\ processes' = processes \cup {AttemptId(l)}
    /\ workspaces' = IF io = "ok" THEN workspaces ELSE DropTempDir(workspaces, AttemptId(l))
    /\ UNCHANGED <<submissions, test_cases, execution_logs>>

\* lines 133-155: time passes while the lane waits for a child that is still running
child_advance(l) ==
    /\ lanes[l].pc = "running"
    /\ NextInstant(l) < Duration(l)
    /\ IF TimeoutElapsed(NextInstant(l), ConfigOf(l).time_limit)
       THEN \* lines 145-154: the future, and the Child in it, is dropped
            /\ Return(l, [lanes[l] EXCEPT !.elapsed = NextInstant(l)], "timeout",
                      TimeoutResult(ConfigOf(l).time_limit))
            /\ workspaces' = DropTempDir(workspaces, AttemptId(l))
       ELSE /\ lanes' = [lanes EXCEPT ![l].elapsed = NextInstant(l)]
            /\ UNCHANGED workspaces
    /\ UNCHANGED <<submissions, test_cases, execution_logs, processes>>

\* lines 133-163: the child exits, wait_with_output reaps it and the attempt
\* returns with the time measured since line 112
child_exit(l) ==
    /\ lanes[l].pc = "running"
    /\ ~NeverExits(Behaviour(l))
    /\ \/ lanes[l].elapsed = Duration(l)
       \/ NextInstant(l) = Duration(l)
    /\ Return(l, [lanes[l] EXCEPT !.elapsed = Duration(l)], "completed",
              Ok(Behaviour(l).stdout, Behaviour(l).stderr, Duration(l), 1024,
                 ExitCode(Behaviour(l).code)))
    /\ processes' = processes \ {AttemptId(l)}
    /\ workspaces' = DropTempDir(workspaces, AttemptId(l))
    /\ UNCHANGED <<submissions, test_cases, execution_logs>>

(***************************************************************************)
(* Logging and the final write                                             *)
(***************************************************************************)
\* the test case numbered from 0
TestCaseFailedMsgFromZero(i) == <<"Test case ", ToString(i), " failed">>

\* line 365: format!("Test case {} failed", i + 1)
TestCaseFailedMsg(i) == <<"Test case ", ToString(i + 1), " failed">>

TestCaseRow(l) ==
    LET ln == lanes[l]
        r == ln.result
    IN [id |-> NextRowId(l),
        submission_id |-> ln.submission_id, language |-> Sub(l).language_id,
        execution_time |-> Some(r.execution_time), memory_used |-> Some(r.memory_used),
        exit_code |-> Some(r.exit_code), stdout |-> Some(r.stdout),
        stderr |-> IF r.stderr = <<>> THEN None ELSE Some(r.stderr),
        status |-> IF ln.passed THEN "Accepted" ELSE "WrongAnswer",
        error_message |-> IF ln.passed THEN None
                          ELSE Some(TestCaseFailedMsg(ln.i))]

\* a loop that goes on after a failed comparison
StopNever(passed, overall_status) == FALSE

\* line 373: the loop is left after a failed comparison
StopOnWrongAnswer(passed, overall_status) == ~passed /\ overall_status = "WrongAnswer"

\* lines 344-376: the row of the attempt is written, then the loop goes on or ends
log_test_case(l) ==
    /\ lanes[l].pc = "log_test_case"
    /\ execution_logs' = create_execution_log(execution_logs, TestCaseRow(l))
    /\ lanes' = [lanes EXCEPT ![l] =
                    LET logged == [@ EXCEPT !.log_ids = Append(@, NextRowId(l))]
                    IN IF StopOnWrongAnswer(logged.passed, logged.overall_status)
                       THEN [logged EXCEPT !.pc = "final_update"]
                       ELSE IF logged.i + 1 < Len(TestsOf(l))
                       THEN [logged EXCEPT !.i = @ + 1, !.pc = "acquire"]
                       ELSE [logged EXCEPT !.i = @ + 1, !.pc = "final_update"]]
    /\ UNCHANGED <<submissions, test_cases, workspaces, processes>>

\* zero reported as a value
ZeroKept(n) == Some(n)

\* zero is reported as absent (lines 392-401)
NonZero(n) == IF n > 0 THEN Some(n) ELSE None

\* lines 387-406
final_update(l) ==
    /\ lanes[l].pc = "final_update"
    /\ LET ln == lanes[l]
           w == StatusWrite(ln.overall_status, NonZero(ln.max_execution_time),
                            NonZero(ln.max_memory_used), ln.error_message)
       IN /\ submissions' = update_status(submissions, ln.submission_id, w.status,
                                          w.execution_time, w.memory_used, w.error_message)
          /\ lanes' = [lanes EXCEPT ![l].pc = "done", ![l].writes = Append(@, w)]
    /\ UNCHANGED <<test_cases, execution_logs, workspaces, processes>>

\* the error as it is
BareError(e) == e

\* line 430: format!("Judge system error: {}", e)
JudgeSystemError(e) == <<"Judge system error: ">> \o e

\* a task that logs the error of the run and writes nothing
handle_lane_error_log_only(l) ==
    /\ lanes[l].pc = "failed"
    /\ lanes' = [lanes EXCEPT ![l].pc = "done_err"]
    /\ UNCHANGED <<submissions, test_cases, execution_logs, workspaces, processes>>

\* the spawned task of queue_submission (lines 418-442): an error of the run
\* is logged and RuntimeError is written
handle_lane_error(l) ==
    /\ lanes[l].pc = "failed"
    /\ LET w == StatusWrite("RuntimeError", None, None, Some(JudgeSystemError(lanes[l].err[1])))
       IN /\ submissions' = update_status(submissions, lanes[l].submission_id, w.status,
                                          w.execution_time, w.memory_used, w.error_message)
          /\ lanes' = [lanes EXCEPT ![l].pc = "done_err", ![l].writes = Append(@, w)]
    /\ UNCHANGED <<test_cases, execution_logs, workspaces, processes>>

Next ==
    \/ \E id \in SubmissionIds : queue_submission(id)
    \/ \E l \in LaneIds : find_submission(l)
    \/ \E l \in LaneIds : validate_language(l)
    \/ \E l \in LaneIds : log_unsupported(l)
    \/ \E l \in LaneIds : update_unsupported(l)
    \/ \E l \in LaneIds : find_test_cases(l)
    \/ \E l \in LaneIds : log_no_tests(l)
    \/ \E l \in LaneIds : update_no_tests(l)
    \/ \E l \in LaneIds : get_config(l)
    \/ \E l \in LaneIds, io_ok \in BOOLEAN : acquire_workspace(l, io_ok)
    \/ \E l \in LaneIds, io_ok \in BOOLEAN : compile_code(l, io_ok)
    \/ \E l \in LaneIds, io \in {"ok", "spawn_failed", "stdin_failed"} : spawn_child(l, io)
    \/ \E l \in LaneIds : child_advance(l)
    \/ \E l \in LaneIds : child_exit(l)
    \/ \E l \in LaneIds : log_test_case(l)
    \/ \E l \in LaneIds : final_update(l)
    \/ \E l \in LaneIds : handle_lane_error(l)

Spec == Init /\ [][Next]_vars

(***************************************************************************)
(* Store failures: a call on a store returns Err (sqlx::Error, converted   *)
(* to Error::Database by the ? of the repositories)                        *)
(***************************************************************************)
DatabaseErr == <<"Database connection error: ", "pool timed out">>

\* the steps of execute_submission_internal that await a store and apply ?
\* to what it returns (the awaits at lines 180, 187, 210, 221, 230, 250, 261,
\* 270, 368-370 and 395-404)
StoreCalls ==
    {"find_submission", "validate_language", "log_unsupported", "update_unsupported",
     "find_test_cases", "log_no_tests", "update_no_tests", "get_config",
     "log_test_case", "final_update"}

\* the store call the lane is at returns Err: nothing is read or written and
\* the error leaves execute_submission_internal
store_failure(l) ==
    /\ lanes[l].pc \in StoreCalls
    /\ lanes' = [lanes EXCEPT ![l].pc = "failed", ![l].err = Some(DatabaseErr),
                              ![l].failed_at = lanes[l].pc]
    /\ UNCHANGED <<submissions, test_cases, execution_logs, workspaces, processes>>

\* lines 96-100: the descriptor read inside execute_with_timeout returns Err,
\* which the loop takes as the failure of the attempt (lines 298-302)
config_read_failure(l) ==
    /\ lanes[l].pc = "acquire"
    /\ Return(l, lanes[l], "store_error", Err(DatabaseErr))
    /\ UNCHANGED <<submissions, test_cases, execution_logs, workspaces, processes>>

\* lines 424-439: the update_status of the spawned task returns Err, which is logged
handle_lane_error_update_fails(l) ==
    /\ lanes[l].pc = "failed"
    /\ lanes' = [lanes EXCEPT ![l].pc = "done_unwritten"]
    /\ UNCHANGED <<submissions, test_cases, execution_logs, workspaces, processes>>

NextFault ==
    \/ Next
    \/ \E l \in LaneIds : store_failure(l)
    \/ \E l \in LaneIds : config_read_failure(l)
    \/ \E l \in LaneIds : handle_lane_error_update_fails(l)

\* the submissions the store failures are injected on: any language, any number
\* of test cases, all of them samples, and a program that compiles and either
\* solves every test case, or exits with code 1 on the first one, or overruns
\* the time limit on the first one
InitFault ==
    /\ Init
    /\ \A t \in DOMAIN test_cases : test_cases[t].is_sample
    /\ \A s \in DOMAIN submissions :
          /\ submissions[s].code.compile = CompileOk
          /\ \A t \in DOMAIN submissions[s].code.run :
                \/ submissions[s].code.run[t] = DefaultBehaviour
                \/ t = 1 /\ submissions[s].code.run[t].code = Some(1)
                \/ t = 1 /\ submissions[s].code.run[t].slow

SpecFault == InitFault /\ [][NextFault]_vars

(***************************************************************************)
(* Repeated calls: queue_submission called again for a submission that is  *)
(* being judged or has been judged                                         *)
(***************************************************************************)
\* lines 412-445: nothing is looked up before the task is spawned
queue_submission_again(id) ==
    /\ Len(lanes) < MaxCalls
    /\ lanes' = Append(lanes, NewLane(id))
    /\ UNCHANGED <<submissions, test_cases, execution_logs, workspaces, processes>>

\* a python submission on a problem with test cases, all of them samples; the
\* program solves every test case or fails on the first one
InitRequeue ==
    /\ Init
    /\ Len(test_cases) >= 1
    /\ \A t \in DOMAIN test_cases : test_cases[t].is_sample
    /\ \A s \in DOMAIN submissions :
          /\ submissions[s].language_id = "python"
          /\ \A t \in DOMAIN submissions[s].code.run :
                \/ submissions[s].code.run[t] = DefaultBehaviour
                \/ t = 1 /\ ~submissions[s].code.run[t].slow /\ ~Solves(submissions[s].code.run[t])

\* the steps of the lanes of such a submission; of the process layer the
\* spawn may fail
NextRequeue ==
    \/ \E id \in DOMAIN submissions : queue_submission_again(id)
    \/ \E l \in LaneIds : find_submission(l)
    \/ \E l \in LaneIds : validate_language(l)
    \/ \E l \in LaneIds : find_test_cases(l)
    \/ \E l \in LaneIds : get_config(l)
    \/ \E l \in LaneIds : acquire_workspace(l, TRUE)
    \/ \E l \in LaneIds : compile_code(l, TRUE)
    \/ \E l \in LaneIds, io \in {"ok", "spawn_failed"} : spawn_child(l, io)
    \/ \E l \in LaneIds : child_exit(l)
    \/ \E l \in LaneIds : log_test_case(l)
    \/ \E l \in LaneIds : final_update(l)

SpecRequeue == InitRequeue /\ [][NextRequeue]_vars

(***************************************************************************)
(* The HTTP API: PATCH /submissions/{submission_id}/result                 *)
(* (routes/submission.rs 11-14, handlers/submission.rs 218-239)            *)
(***************************************************************************)
\* bodies of the request
ApiResults ==
    { StatusWrite("Accepted", Some(1), Some(1), None),
      StatusWrite("TimeLimitExceeded", None, None, Some(<<"set by hand">>)) }

\* services/submission.rs 133-150: Err when the submission does not exist,
\* else the four fields are set to those of the request
update_submission_result(id, result) ==
    /\ find_by_id(id) # None
    /\ submissions' = update_status(submissions, id, result.status, result.execution_time,
                                    result.memory_used, result.error_message)
    /\ UNCHANGED <<test_cases, execution_logs, lanes, workspaces, processes>>

NextApi ==
    \/ Next
    \/ \E id \in SubmissionIds, result \in ApiResults : update_submission_result(id, result)

SpecApi == Init /\ [][NextApi]_vars

(***************************************************************************)
(* The comparator on drawn texts: one python submission on a problem with  *)
(* one test case; the expected output and what the program prints are      *)
(* drawn, the program exits with 0                                         *)
(***************************************************************************)
OutputChars == {"5", "6", "\n", "\r"}

RECURSIVE Texts(_)
Texts(n) ==
    IF n = 0 THEN {<<>>}
    ELSE Texts(n - 1) \cup {Append(t, c) : t \in {u \in Texts(n - 1) : Len(u) = n - 1}, c \in OutputChars}

\* handlers/submission.rs 110-136: a submission is queued once, when it is created
queue_submission_first(id) ==
    /\ \A l \in LaneIds : lanes[l].submission_id # id
    /\ lanes' = Append(lanes, NewLane(id))
    /\ UNCHANGED <<submissions, test_cases, execution_logs, workspaces, processes>>

InitCompare ==
    /\ \E expected \in Texts(MaxExpectedLen) :
          test_cases = <<[id |-> 1, problem_id |-> "p1", input_data |-> InputData,
                          expected_output |-> expected, is_sample |-> TRUE]>>
    /\ \E actual \in Texts(MaxActualLen) :
          submissions = [s \in {"s1"} |->
                            CreatedSubmission("python",
                                [compile |-> CompileOk,
                                 run |-> <<[slow |-> FALSE, ms |-> 7, stdout |-> actual,
                                            stderr |-> <<>>, code |-> Some(0)]>>])]
    /\ execution_logs = {}
    /\ lanes = <<>>
    /\ workspaces = {}
    /\ processes = {}

\* the steps of the lanes of submissions in a supported language on a problem
\* with test cases, each queued once, the process layer not failing
NextQueuedOnce ==
    \/ \E id \in DOMAIN submissions : queue_submission_first(id)
    \/ \E l \in LaneIds : find_submission(l)
    \/ \E l \in LaneIds : validate_language(l)
    \/ \E l \in LaneIds : find_test_cases(l)
    \/ \E l \in LaneIds : get_config(l)
    \/ \E l \in LaneIds : acquire_workspace(l, TRUE)
    \/ \E l \in LaneIds : compile_code(l, TRUE)
    \/ \E l \in LaneIds : spawn_child(l, "ok")
    \/ \E l \in LaneIds : child_exit(l)
    \/ \E l \in LaneIds : log_test_case(l)
    \/ \E l \in LaneIds : final_update(l)

SpecCompare == InitCompare /\ [][NextQueuedOnce]_vars

(***************************************************************************)
(* Two submissions to one problem, each queued once when it is created     *)
(***************************************************************************)
\* a python or c program that has no slow test case and either solves every
\* test case or, having compiled, fails on the first one, or does not compile
PairCodes(lang, n) ==
    {c \in Codes(lang, n) :
        \A t \in 1..n :
            \/ c.run[t] = DefaultBehaviour
            \/ (t = 1 /\ ~c.run[t].slow /\ ~Solves(c.run[t])) }

InitPair ==
    /\ \E n \in 1..MaxTests :
         /\ test_cases = [t \in 1..n |->
                             [id |-> t, problem_id |-> "p1", input_data |-> InputData,
                              expected_output |-> ExpectedOutput, is_sample |-> TRUE]]
         /\ \E lang1 \in {"python", "c"}, lang2 \in {"python", "c"} :
              \E code1 \in PairCodes(lang1, n), code2 \in PairCodes(lang2, n) :
                 submissions = [s \in {"s1", "s2"} |->
                                   IF s = "s1" THEN CreatedSubmission(lang1, code1)
                                   ELSE CreatedSubmission(lang2, code2)]
    /\ execution_logs = {}
    /\ lanes = <<>>
    /\ workspaces = {}
    /\ processes = {}

SpecPair == InitPair /\ [][NextQueuedOnce]_vars

\* the loop of execute_submission_internal (lines 279-376) run on its own, as
\* a function of the submission and the test cases, the process layer not
\* failing: the aggregator at the end and the verdicts and outputs of the rows
RECURSIVE LoopAlone(_, _, _, _)
LoopAlone(sub, tests, ln, rows) ==
    IF ln.i >= Len(tests) THEN [lane |-> ln, rows |-> rows]
    ELSE LET tc == tests[ln.i + 1]
             config == LanguageConfigFrom(sub.language_id)
             b == RunOf(sub.language_id, sub.code, tc.id)
             r == IF config.compile_command # None /\ sub.code.compile.status # 0
                  THEN Ok(<<>>, sub.code.compile.stderr, 0, 0, 1)
                  ELSE Ok(b.stdout, b.stderr,
                          IF b.slow THEN config.time_limit + OverRun ELSE b.ms, 1024,
                          ExitCode(b.code))
             a == Aggregate(ln, r, tc.expected_output)
             row == [status |-> IF a.passed THEN "Accepted" ELSE "WrongAnswer",
                     stdout |-> Some(r.stdout), exit_code |-> Some(r.exit_code)]
         IN IF a.pc = "final_update" THEN [lane |-> a, rows |-> rows]
            ELSE IF StopOnWrongAnswer(a.passed, a.overall_status)
            THEN [lane |-> a, rows |-> Append(rows, row)]
            ELSE LoopAlone(sub, tests, [a EXCEPT !.i = @ + 1], Append(rows, row))

(***************************************************************************)
(* Liveness: the runtime goes on running a spawned task as long as it has  *)
(* a step to take; the submitted programs include one that never exits     *)
(***************************************************************************)
\* the programs of Codes and, for python and c, the program that compiles and
\* never exits on the test case created first
LiveCodes(lang, n) ==
    Codes(lang, n) \cup
    (IF lang \in {"python", "c"} /\ n >= 1
     THEN { [compile |-> CompileOk,
             run |-> [t \in 1..n |-> IF t = 1 THEN Hanging ELSE DefaultBehaviour]] }
     ELSE {})

InitLive ==
    /\ \E n \in 0..MaxTests, lang \in LanguageNames :
         /\ \E flags \in SampleFlags(n) :
              test_cases = [t \in 1..n |->
                              [id |-> t, problem_id |-> "p1", input_data |-> InputData,
                               expected_output |-> ExpectedOutput, is_sample |-> flags[t]]]
         /\ \E code \in LiveCodes(lang, n) :
              submissions = [s \in {"s1"} |-> CreatedSubmission(lang, code)]
    /\ execution_logs = {}
    /\ lanes = <<>>
    /\ workspaces = {}
    /\ processes = {}

SpecLive == InitLive /\ [][Next]_vars /\ WF_vars(Next)

(***************************************************************************)
(* Properties                                                              *)
(***************************************************************************)
\* the run of the lane has returned Ok from execute_submission_internal
RunEnded(l) == lanes[l].pc = "done"

HasSubmission(l) == lanes[l].submission_id \in DOMAIN submissions

\* the rows the lane has created, in the order it created them
RowsOf(l) ==
    [k \in 1..Len(lanes[l].log_ids) |->
        CHOOSE row \in execution_logs : row.id = lanes[l].log_ids[k]]

\* the rows of test-case attempts (a pre-flight row has no exit code)
TestRowCount(l) ==
    Cardinality({row \in execution_logs : row.id[1] = l /\ row.exit_code # None})

ExpectedOf(l, a) == TestsOf(l)[a.test].expected_output

Exited(a) == a.res.ok

PassedAttempt(l, a) ==
    /\ Exited(a) /\ a.res.exit_code = 0
    /\ RemoveCR(Trim(ExpectedOf(l, a))) = RemoveCR(Trim(a.res.stdout))

MismatchAttempt(l, a) ==
    /\ Exited(a) /\ a.res.exit_code = 0
    /\ RemoveCR(Trim(ExpectedOf(l, a))) # RemoveCR(Trim(a.res.stdout))

LastAttempt(l) == lanes[l].trace[Len(lanes[l].trace)]

\* C1: every attempt of a run, whatever its outcome, has produced one
\* ExecutionLog row by the time the run goes on or ends: when the run has ended
\* the number of test-case rows it created equals the number of its attempts.
C1_OneRowPerAttempt ==
    \A l \in LaneIds :
        lanes[l].pc \in {"final_update", "done"} => TestRowCount(l) = Len(lanes[l].trace)

\* C2: when the first K attempts of a run pass and attempt K+1 exits with 0
\* and does not match, attempt K+1 is the last one, the run creates exactly
\* K+1 rows and the verdict it writes is WrongAnswer.
C2_FailFast ==
    \A l \in LaneIds : \A k \in 1..Len(lanes[l].trace) :
        ( /\ MismatchAttempt(l, lanes[l].trace[k])
          /\ \A j \in 1..(k - 1) : PassedAttempt(l, lanes[l].trace[j]) )
        => /\ Len(lanes[l].trace) = k
           /\ lanes[l].runs = k
           /\ lanes[l].pc \in {"log_test_case", "final_update", "done"}
           /\ lanes[l].pc = "log_test_case" => Len(lanes[l].log_ids) = k - 1
           /\ lanes[l].pc \in {"final_update", "done"} => TestRowCount(l) = k
           /\ RunEnded(l) => /\ Len(lanes[l].writes) = 1
                             /\ lanes[l].writes[1].status = "WrongAnswer"

C2_Witness ==
    \E l \in LaneIds :
        /\ RunEnded(l)
        /\ Len(TestsOf(l)) = 3
        /\ Len(lanes[l].trace) = 2
        /\ PassedAttempt(l, lanes[l].trace[1])
        /\ MismatchAttempt(l, lanes[l].trace[2])
        /\ Sub(l).status = "WrongAnswer"

\* C3: a run of a submission whose language is not in the language store
\* creates exactly one row, writes RuntimeError and runs nothing: no compile
\* step, no child, no attempt.
C3_UnsupportedLanguage ==
    \A l \in LaneIds :
        (HasSubmission(l) /\ Sub(l).language_id \notin LanguageStore)
        => /\ lanes[l].trace = <<>> /\ lanes[l].compiles = 0 /\ lanes[l].runs = 0
           /\ lanes[l].pc \in {"find_submission", "validate_language", "log_unsupported",
                               "update_unsupported", "done"}
           /\ RunEnded(l) =>
                /\ Len(lanes[l].log_ids) = 1
                /\ RowsOf(l)[1].status = "RuntimeError"
                /\ RowsOf(l)[1].exit_code = None
                /\ lanes[l].writes = <<StatusWrite("RuntimeError", None, None,
                                                   Some(<<"Unsupported language: ", Sub(l).language_id>>))>>

C3_Witness ==
    \E l \in LaneIds :
        /\ RunEnded(l)
        /\ Sub(l).language_id \notin LanguageStore
        /\ Len(test_cases) > 0
        /\ Sub(l).status = "RuntimeError"
        /\ Cardinality(execution_logs) = 1

\* C4: a run of a submission in a supported language on a problem without
\* test cases writes RuntimeError with the message that no test cases were
\* found, creates exactly one pre-flight row and never invokes the Run Stage.
C4_NoTestCases ==
    \A l \in LaneIds :
        (HasSubmission(l) /\ Sub(l).language_id \in LanguageStore /\ Len(TestsOf(l)) = 0)
        => /\ lanes[l].trace = <<>> /\ lanes[l].compiles = 0 /\ lanes[l].runs = 0
           /\ lanes[l].pc \in {"done", "done_err"} =>
                /\ Len(lanes[l].log_ids) = 1
                /\ RowsOf(l)[1].status = "RuntimeError"
                /\ RowsOf(l)[1].exit_code = None
                /\ RowsOf(l)[1].error_message = Some(<<"No test cases found for this problem">>)
                /\ lanes[l].writes = <<StatusWrite("RuntimeError", None, None,
                                                   Some(<<"No test cases found for this problem">>))>>

C4_Witness ==
    \E l \in LaneIds :
        /\ RunEnded(l)
        /\ Sub(l).language_id = "c"
        /\ Len(TestsOf(l)) = 0
        /\ Sub(l).error_message = Some(<<"No test cases found for this problem">>)
        /\ Cardinality(execution_logs) = 1

\* C5: within one run the compile command is executed at most once.
C5_CompileOnce == \A l \in LaneIds : lanes[l].compiles <= 1

\* C6: when the compile command exits with a non-zero status, whatever it
\* wrote to stderr, the run writes RuntimeError with the compiler's stderr as
\* error_message and the user program is not run.
C6_CompileFailure ==
    \A l \in LaneIds :
        (RunEnded(l) /\ lanes[l].trace # <<>> /\ LastAttempt(l).kind = "compile_error")
        => /\ lanes[l].writes[1].status = "RuntimeError"
           /\ lanes[l].writes[1].error_message = Some(LastAttempt(l).res.stderr)
           /\ lanes[l].runs = 0

\* C7: an attempt whose child has not completed by the deadline reports the
\* synthetic result (empty stdout, stderr "Time limit exceeded", exit code
\* 124, execution_time = time_limit, memory 0), never the child's own output.
C7_TimeoutSynthetic ==
    \A l \in LaneIds : \A k \in 1..Len(lanes[l].trace) :
        ( /\ lanes[l].trace[k].kind \in {"completed", "timeout"}
          /\ RunOf(Sub(l).language_id, Sub(l).code, TestsOf(l)[k].id).slow )
        => lanes[l].trace[k].res =
              [ok |-> TRUE, stdout |-> <<>>, stderr |-> <<"Time", "limit", "exceeded">>,
               execution_time |-> ConfigOf(l).time_limit, memory_used |-> 0,
               exit_code |-> 124, msg |-> <<>>]

\* C8: once the deadline of an attempt has elapsed its child is no longer
\* running: no lane is still waiting for a child at or past time_limit.
C8_KilledAtDeadline ==
    \A l \in LaneIds :
        (lanes[l].pc = "running" /\ AttemptId(l) \in processes)
        => lanes[l].elapsed < ConfigOf(l).time_limit

\* C9: the workspaces that exist are workspaces of attempts in progress; once
\* an attempt has returned, on whatever path, its workspace is gone.
C9_WorkspaceScoped ==
    workspaces \subseteq
        { <<l, lanes[l].i + 1>> : l \in {m \in LaneIds : lanes[m].pc \in {"compile", "spawn", "running"}} }

C9_Witness ==
    \E l \in LaneIds :
        /\ RunEnded(l)
        /\ Len(lanes[l].trace) = 2
        /\ lanes[l].trace[1].kind = "completed"
        /\ lanes[l].trace[2].kind = "system_error"
        /\ lanes[l].runs = 2
        /\ workspaces = {}

\* C10: an attempt that returns a non-zero exit code with the timeout marker
\* in its stderr is the last attempt of the run, puts the aggregator in
\* TimeLimitExceeded with error_message "Time limit exceeded", and
\* TimeLimitExceeded is the verdict the run writes.
C10_TimeoutMarker ==
    \A l \in LaneIds : \A k \in 1..Len(lanes[l].trace) :
        ( /\ Exited(lanes[l].trace[k])
          /\ lanes[l].trace[k].res.exit_code # 0
          /\ ContainsAnywhere(lanes[l].trace[k].res.stderr, <<"Time", "limit", "exceeded">>) )
        => /\ Len(lanes[l].trace) = k
           /\ lanes[l].overall_status = "TimeLimitExceeded"
           /\ lanes[l].error_message = Some(<<"Time", "limit", "exceeded">>)
           /\ lanes[l].pc \in {"final_update", "done"}
           /\ RunEnded(l) => /\ Len(lanes[l].writes) = 1
                             /\ lanes[l].writes[1].status = "TimeLimitExceeded"
                             /\ lanes[l].writes[1].error_message = Some(<<"Time", "limit", "exceeded">>)

C10_Witness ==
    \E l \in LaneIds :
        /\ RunEnded(l)
        /\ Len(lanes[l].trace) = 2
        /\ Len(TestsOf(l)) = 3
        /\ LastAttempt(l).kind = "completed"
        /\ LastAttempt(l).res.exit_code = 2
        /\ LastAttempt(l).res.stderr = <<"fatal:", "Time", "limit", "exceeded">>
        /\ Sub(l).status = "TimeLimitExceeded"

\* C11: an attempt that returns a non-zero exit code without the timeout
\* marker in its stderr is the last attempt of the run and puts the aggregator
\* in RuntimeError; the write of the run carries RuntimeError and, as
\* error_message, the stderr of the attempt or, when that is empty,
\* "Runtime error (exit code: N)".
C11_RuntimeError ==
    \A l \in LaneIds : \A k \in 1..Len(lanes[l].trace) :
        LET r == lanes[l].trace[k].res
            message == IF r.stderr = <<>>
                       THEN <<"Runtime error (exit code: ", ToString(r.exit_code), ")">>
                       ELSE r.stderr
        IN ( /\ Exited(lanes[l].trace[k])
             /\ r.exit_code # 0
             /\ ~ContainsAnywhere(r.stderr, <<"Time", "limit", "exceeded">>) )
           => /\ Len(lanes[l].trace) = k
              /\ lanes[l].runs <= k
              /\ lanes[l].overall_status = "RuntimeError"
              /\ lanes[l].error_message = Some(message)
              /\ lanes[l].pc \in {"final_update", "done"}
              /\ RunEnded(l) => lanes[l].writes =
                                   <<StatusWrite("RuntimeError", lanes[l].writes[1].execution_time,
                                                 lanes[l].writes[1].memory_used, Some(message))>>

C11_Witness ==
    \E l \in LaneIds :
        /\ RunEnded(l)
        /\ Len(TestsOf(l)) = 3
        /\ Len(lanes[l].trace) = 2
        /\ LastAttempt(l).kind = "completed"
        /\ LastAttempt(l).res.exit_code = 1
        /\ LastAttempt(l).res.stderr = <<>>
        /\ Sub(l).status = "RuntimeError"
        /\ Sub(l).error_message = Some(<<"Runtime error (exit code: ", "1", ")">>)

\* C12: on a problem with N >= 1 test cases, as long as every attempt so far
\* exited with 0 and matched, the aggregator is still Accepted without
\* error_message and the run goes on with the next test case; the run writes
\* Accepted if and only if all N test cases were executed, exited with 0 and
\* matched, and then it has created exactly N rows, each Accepted with exit
\* code 0, and the write carries no error_message.
C12_Accepted ==
    \A l \in LaneIds :
        HasSubmission(l) =>
            LET N == Len(TestsOf(l))
                tr == lanes[l].trace
                AllPassed == \A k \in 1..Len(tr) : tr[k].test = k /\ PassedAttempt(l, tr[k])
            IN /\ (tr # <<>> /\ AllPassed) =>
                    /\ lanes[l].overall_status = "Accepted"
                    /\ lanes[l].error_message = None
                    /\ lanes[l].passed_tests = Len(tr)
                    /\ Len(tr) < N => lanes[l].pc \in {"log_test_case", "acquire", "compile",
                                                       "spawn", "running"}
               /\ (RunEnded(l) /\ N >= 1) =>
                    /\ Len(lanes[l].writes) = 1
                    /\ lanes[l].writes[1].status = "Accepted" <=> (Len(tr) = N /\ AllPassed)
                    /\ lanes[l].writes[1].status = "Accepted" =>
                         /\ lanes[l].writes[1].error_message = None
                         /\ Len(lanes[l].log_ids) = N
                         /\ TestRowCount(l) = N
                         /\ \A k \in 1..N : /\ RowsOf(l)[k].status = "Accepted"
                                            /\ RowsOf(l)[k].exit_code = Some(0)

C12_Witness ==
    \E l \in LaneIds :
        /\ RunEnded(l)
        /\ Len(TestsOf(l)) = 3
        /\ Len(lanes[l].trace) = 3
        /\ \A k \in 1..3 : PassedAttempt(l, lanes[l].trace[k])
        /\ Sub(l).status = "Accepted"
        /\ Sub(l).error_message = None
        /\ Cardinality(execution_logs) = 3

\* C13: attempt k of a run is made on the k-th test case in the order of the
\* store (samples first, then by creation); while attempt i+1 is in progress
\* the i attempts before it have returned and their rows exist; the k-th
\* test-case row of the run is the row of attempt k; and once the run has
\* written the status it is at its end, with all its rows created before.
C13_Sequential ==
    \A l \in LaneIds :
        HasSubmission(l) =>
            LET tr == lanes[l].trace
                order == SelectSeq(test_cases, IsSample) \o SelectSeq(test_cases, IsHidden)
            IN /\ \A k \in 1..Len(tr) :
                    /\ tr[k].test = k
                    /\ tr[k].kind = "completed" =>
                         LET b == RunOf(Sub(l).language_id, Sub(l).code, order[k].id)
                         IN tr[k].res.stdout = b.stdout /\ tr[k].res.stderr = b.stderr
               /\ lanes[l].pc \in {"acquire", "compile", "spawn", "running"} =>
                    /\ Len(tr) = lanes[l].i
                    /\ Len(lanes[l].log_ids) = lanes[l].i
                    /\ lanes[l].writes = <<>>
               /\ lanes[l].pc = "log_test_case" =>
                    /\ Len(tr) = lanes[l].i + 1
                    /\ Len(lanes[l].log_ids) = lanes[l].i
                    /\ lanes[l].writes = <<>>
               /\ \A k \in 1..Len(lanes[l].log_ids) :
                    /\ lanes[l].log_ids[k] = <<l, k>>
                    /\ \E row \in execution_logs : row.id = <<l, k>>
                    /\ RowsOf(l)[k].exit_code # None =>
                         /\ k <= Len(tr)
                         /\ RowsOf(l)[k].stdout = Some(tr[k].res.stdout)
                         /\ RowsOf(l)[k].exit_code = Some(tr[k].res.exit_code)
               /\ lanes[l].writes # <<>> =>
                    /\ lanes[l].pc \in {"done", "done_err"}
                    /\ {row.id : row \in {x \in execution_logs : x.id[1] = l}}
                          = {lanes[l].log_ids[k] : k \in 1..Len(lanes[l].log_ids)}

C13_Witness ==
    \E l \in LaneIds :
        /\ RunEnded(l)
        /\ Len(TestsOf(l)) = 3
        /\ TestsOf(l)[3].id = 1
        /\ Len(lanes[l].trace) = 3
        /\ PassedAttempt(l, lanes[l].trace[1])
        /\ PassedAttempt(l, lanes[l].trace[2])
        /\ MismatchAttempt(l, lanes[l].trace[3])
        /\ Len(lanes[l].log_ids) = 3
        /\ RowsOf(l)[3].status = "WrongAnswer"
        /\ Len(lanes[l].writes) = 1

\* C20: the status write of a run that made attempts carries the largest
\* execution_time and the largest memory_used of the results its attempts
\* returned, the failing one included, each absent when it is 0, and the
\* error_message the aggregator holds at the end.
C20_FinalMaxima ==
    \A l \in LaneIds :
        (RunEnded(l) /\ lanes[l].trace # <<>>) =>
            LET tr == lanes[l].trace
                returned == {k \in 1..Len(tr) : Exited(tr[k])}
                times == {tr[k].res.execution_time : k \in returned} \cup {0}
                memories == {tr[k].res.memory_used : k \in returned} \cup {0}
                max_time == CHOOSE m \in times : \A t \in times : t <= m
                max_memory == CHOOSE m \in memories : \A t \in memories : t <= m
            IN lanes[l].writes =
                  <<[status |-> lanes[l].overall_status,
                     execution_time |-> IF max_time = 0 THEN <<>> ELSE <<max_time>>,
                     memory_used |-> IF max_memory = 0 THEN <<>> ELSE <<max_memory>>,
                     error_message |-> lanes[l].error_message]>>

C20_Witness ==
    \E l \in LaneIds :
        /\ RunEnded(l)
        /\ Len(lanes[l].trace) = 2
        /\ lanes[l].trace[1].res.execution_time > lanes[l].trace[2].res.execution_time
        /\ lanes[l].trace[2].res.execution_time > 0
        /\ lanes[l].trace[2].res.exit_code = 1
        /\ Sub(l).status = "RuntimeError"
        /\ Sub(l).execution_time = Some(lanes[l].trace[1].res.execution_time)
        /\ Sub(l).memory_used = Some(1024)

\* C16: an attempt in which the process layer fails with a SystemError is the
\* last attempt of the run, the run writes RuntimeError, and one row exists
\* for the failed attempt (the rows of the run are as many as its attempts).
C16_SystemErrorRow ==
    \A l \in LaneIds : \A k \in 1..Len(lanes[l].trace) :
        lanes[l].trace[k].kind = "system_error"
        => /\ Len(lanes[l].trace) = k
           /\ lanes[l].overall_status = "RuntimeError"
           /\ lanes[l].pc \in {"final_update", "done"}
           /\ RunEnded(l) => /\ Len(lanes[l].writes) = 1
                             /\ lanes[l].writes[1].status = "RuntimeError"
                             /\ TestRowCount(l) = k

\* C14 as stated: a run on an existing submission that has come to its end,
\* store failures included, has applied exactly one update_status write.
C14_ExactlyOnce ==
    \A l \in LaneIds :
        (HasSubmission(l) /\ lanes[l].pc \in {"done", "done_err", "done_unwritten"})
        => Len(lanes[l].writes) = 1

\* C14, amended: a run applies at most one update_status write; it has applied
\* exactly one when it has ended, unless a store call failed in the run and the
\* update_status of the error handler failed as well: then it has applied none.
C14_AtMostOnce ==
    \A l \in LaneIds :
        HasSubmission(l) =>
            /\ Len(lanes[l].writes) <= 1
            /\ lanes[l].pc \in {"done", "done_err"} => Len(lanes[l].writes) = 1
            /\ lanes[l].pc = "done_unwritten" => lanes[l].writes = <<>> /\ lanes[l].failed_at # ""
            /\ lanes[l].pc \notin {"done", "done_err"} => lanes[l].writes = <<>>
            /\ Len(lanes[l].writes) = 1 =>
                  \/ [f \in {"status", "execution_time", "memory_used", "error_message"} |-> Sub(l)[f]]
                        = lanes[l].writes[1]
                  \/ \E m \in LaneIds \ {l} : lanes[m].submission_id = lanes[l].submission_id

C14_Witness ==
    \E l \in LaneIds :
        /\ HasSubmission(l)
        /\ lanes[l].pc = "done_err"
        /\ lanes[l].failed_at = "final_update"
        /\ Len(lanes[l].trace) = 2
        /\ lanes[l].overall_status = "Accepted"
        /\ Len(lanes[l].writes) = 1
        /\ Sub(l).status = "RuntimeError"

\* C15 as stated: after a store write of a run has failed (an ExecutionLog
\* insert or a status update) the lane writes nothing more and the submission
\* keeps the four fields it was created with.
C15_PlaceholderKept ==
    \A l \in LaneIds :
        ( /\ HasSubmission(l)
          /\ lanes[l].failed_at \in {"log_unsupported", "update_unsupported", "log_no_tests",
                                     "update_no_tests", "log_test_case", "final_update"} )
        => /\ lanes[l].writes = <<>>
           /\ (\A m \in LaneIds \ {l} : lanes[m].submission_id # lanes[l].submission_id)
                => /\ Sub(l).status = "WrongAnswer"
                   /\ Sub(l).execution_time = None
                   /\ Sub(l).memory_used = None
                   /\ Sub(l).error_message = None

\* C15, amended: after a store write of a run has failed the error is with
\* the spawned task, which creates no further row and attempts one more write:
\* RuntimeError without execution_time and memory_used and with
\* "Judge system error: " followed by the error as error_message.  The
\* submission keeps what it held before the run only while that write is
\* pending and when that write fails too.
C15_HandlerWrite ==
    \A l \in LaneIds :
        ( /\ HasSubmission(l)
          /\ lanes[l].failed_at \in {"log_unsupported", "update_unsupported", "log_no_tests",
                                     "update_no_tests", "log_test_case", "final_update"} )
        => LET alone == \A m \in LaneIds \ {l} : lanes[m].submission_id # lanes[l].submission_id
               handler == [status |-> "RuntimeError", execution_time |-> <<>>, memory_used |-> <<>>,
                           error_message |-> <<(<<"Judge system error: ", "Database connection error: ",
                                                  "pool timed out">>)>>]
               fields == [f \in {"status", "execution_time", "memory_used", "error_message"} |-> Sub(l)[f]]
           IN /\ lanes[l].pc \in {"failed", "done_err", "done_unwritten"}
              /\ Len(lanes[l].log_ids) =
                    CASE lanes[l].failed_at \in {"log_unsupported", "log_no_tests"} -> 0
                      [] lanes[l].failed_at \in {"update_unsupported", "update_no_tests"} -> 1
                      [] lanes[l].failed_at = "log_test_case" -> Len(lanes[l].trace) - 1
                      [] OTHER -> Len(lanes[l].log_ids)
              /\ Cardinality({row \in execution_logs : row.id[1] = l}) = Len(lanes[l].log_ids)
              /\ lanes[l].pc \in {"failed", "done_unwritten"} =>
                    /\ lanes[l].writes = <<>>
                    /\ alone => fields = [status |-> "WrongAnswer", execution_time |-> <<>>,
                                          memory_used |-> <<>>, error_message |-> <<>>]
              /\ lanes[l].pc = "done_err" =>
                    /\ lanes[l].writes = <<handler>>
                    /\ alone => fields = handler

C15_Witness ==
    \E l \in LaneIds :
        /\ HasSubmission(l)
        /\ lanes[l].failed_at = "log_test_case"
        /\ lanes[l].pc = "done_err"
        /\ Len(lanes[l].trace) = 2
        /\ Cardinality(execution_logs) = 1
        /\ Sub(l).status = "RuntimeError"
        /\ Sub(l).error_message = Some(<<"Judge system error: ", "Database connection error: ",
                                         "pool timed out">>)

\* C17: the call of queue_submission that spawned a lane has returned Ok, from
\* the moment the lane exists and before its first step, whatever the id and
\* however the run goes on and ends: missing submission, unsupported language,
\* store failures.
C17_ReturnsOk ==
    \A l \in LaneIds : lanes[l].returned = "Ok"

C17_Witness ==
    \E l \in LaneIds :
        /\ HasSubmission(l)
        /\ lanes[l].failed_at = "final_update"
        /\ lanes[l].pc = "done_unwritten"
        /\ Sub(l).status = "WrongAnswer"
        /\ lanes[l].returned = "Ok"

\* C18: every call of queue_submission for a submission starts a run of its
\* own: each lane of the submission makes its own attempts on the test cases,
\* from the first one on, and creates its own rows, so that the table holds
\* the rows of all of them; and every status write of a lane replaces the four
\* stored fields, whatever another run has written there before.
C18_NotIdempotent ==
    /\ [](\A l \in LaneIds :
            /\ Cardinality({row \in execution_logs : row.id[1] = l}) = Len(lanes[l].log_ids)
            /\ \A k \in 1..Len(lanes[l].trace) : lanes[l].trace[k].test = k
            /\ RunEnded(l) => lanes[l].trace # <<>> /\ Len(lanes[l].writes) = 1
            /\ (RunEnded(l) /\ \A k \in 1..Len(lanes[l].trace) : PassedAttempt(l, lanes[l].trace[k]))
                  => /\ Len(lanes[l].trace) = Len(TestsOf(l))
                     /\ lanes[l].runs = Len(TestsOf(l))
                     /\ Len(lanes[l].log_ids) = Len(TestsOf(l)))
    /\ [][\A l \in LaneIds :
            (l <= Len(lanes') /\ lanes'[l].writes # lanes[l].writes)
            => [f \in {"status", "execution_time", "memory_used", "error_message"} |->
                   submissions'[lanes[l].submission_id][f]] = lanes'[l].writes[Len(lanes'[l].writes)]]_vars

C18_Witness ==
    \E l \in LaneIds, m \in LaneIds :
        /\ l # m
        /\ lanes[l].submission_id = lanes[m].submission_id
        /\ RunEnded(l) /\ RunEnded(m)
        /\ lanes[l].runs = 2 /\ lanes[m].runs = 1
        /\ Len(lanes[l].log_ids) = 2 /\ Len(lanes[m].log_ids) = 1
        /\ Cardinality(execution_logs) = 3
        /\ lanes[l].writes[1].status = "Accepted"
        /\ lanes[m].writes[1].status = "RuntimeError"
        /\ Sub(l).status = "RuntimeError"

\* C19: the verdict, execution_time, memory_used and error_message of a
\* submission change only in a step in which a lane applies a status write.
C19_OnlyWriter ==
    [][\A id \in DOMAIN submissions :
          [f \in {"status", "execution_time", "memory_used", "error_message"} |-> submissions'[id][f]]
             # [f \in {"status", "execution_time", "memory_used", "error_message"} |-> submissions[id][f]]
          => \E l \in LaneIds : /\ lanes[l].submission_id = id
                                /\ lanes'[l].writes # lanes[l].writes]_vars

\* C21: in every step the rows of the execution log that exist stay, each as
\* it is (the log only grows), and the test cases are those that were there.
C21_AppendOnly ==
    [][execution_logs \subseteq execution_logs' /\ test_cases' = test_cases]_vars

C21_Witness ==
    \E l \in LaneIds, m \in LaneIds :
        /\ l # m
        /\ lanes[l].submission_id = lanes[m].submission_id
        /\ RunEnded(l) /\ RunEnded(m)
        /\ Len(test_cases) = 3
        /\ Len(lanes[l].log_ids) = 3 /\ Len(lanes[m].log_ids) = 3
        /\ Cardinality(execution_logs) = 6

\* C22: the comparator answers true exactly when expected and actual are equal
\* once every carriage return is deleted and the surrounding whitespace
\* trimmed, and the attempt passes exactly then; it is reflexive and symmetric,
\* and deleting the carriage returns of an argument or putting whitespace
\* around it does not change its answer.  compare("5\n", "5\r\n") and
\* compare("5 ", "5") are true, compare("5", "6") is false.
C22_Comparator ==
    /\ compare_output(<<"5", "\n">>, <<"5", "\r", "\n">>)
    /\ compare_output(<<"5", " ">>, <<"5">>)
    /\ ~compare_output(<<"5">>, <<"6">>)
    /\ \A l \in LaneIds :
          (lanes[l].trace # <<>> /\ lanes[l].pc \in {"log_test_case", "final_update", "done"}) =>
              LET e == TestsOf(l)[1].expected_output
                  a == lanes[l].trace[1].res.stdout
                  same == Trim(RemoveCR(e)) = Trim(RemoveCR(a))
              IN /\ compare_output(e, a) <=> same
                 /\ lanes[l].passed <=> same
                 /\ lanes[l].overall_status = IF same THEN "Accepted" ELSE "WrongAnswer"
                 /\ compare_output(e, e) /\ compare_output(a, a)
                 /\ compare_output(e, a) <=> compare_output(a, e)
                 /\ compare_output(e, a) <=> compare_output(e, RemoveCR(a))
                 /\ compare_output(e, a) <=> compare_output(RemoveCR(e), a)
                 /\ compare_output(e, a) <=> compare_output(<<" ">> \o e \o <<"\n">>, a)
                 /\ compare_output(e, a) <=> compare_output(e, <<"\t", "\r", "\n">> \o a \o <<" ">>)

C22_Witness ==
    \E l \in LaneIds :
        /\ RunEnded(l)
        /\ TestsOf(l)[1].expected_output = <<"5", "6">>
        /\ lanes[l].trace[1].res.stdout = <<"5", "\r", "6">>
        /\ Sub(l).status = "Accepted"
        /\ \E row \in execution_logs : row.status = "Accepted"

\* C23: with two submissions judged by a lane each, in every interleaving a
\* lane that has ended has written what the loop yields when run on its own
\* on that submission, the stored fields of the submission are that write, and
\* the rows of the submission are, in order, the rows of that loop; every
\* attempt in progress has a workspace of its own.
C23_Independent ==
    /\ \A l \in LaneIds :
          RunEnded(l) =>
              LET alone == LoopAlone(Sub(l), TestsOf(l), NewLane(lanes[l].submission_id), <<>>)
                  write == [status |-> alone.lane.overall_status,
                            execution_time |-> IF alone.lane.max_execution_time > 0
                                               THEN <<alone.lane.max_execution_time>> ELSE <<>>,
                            memory_used |-> IF alone.lane.max_memory_used > 0
                                            THEN <<alone.lane.max_memory_used>> ELSE <<>>,
                            error_message |-> alone.lane.error_message]
              IN /\ lanes[l].writes = <<write>>
                 /\ [f \in {"status", "execution_time", "memory_used", "error_message"} |-> Sub(l)[f]]
                       = write
                 /\ [k \in 1..Len(lanes[l].log_ids) |->
                        [status |-> RowsOf(l)[k].status, stdout |-> RowsOf(l)[k].stdout,
                         exit_code |-> RowsOf(l)[k].exit_code]] = alone.rows
                 /\ {row.id : row \in {x \in execution_logs :
                                          x.submission_id = lanes[l].submission_id}}
                       = {lanes[l].log_ids[k] : k \in 1..Len(lanes[l].log_ids)}
    /\ \A l \in LaneIds :
          lanes[l].pc \in {"compile", "spawn", "running"} => <<l, lanes[l].i + 1>> \in workspaces
    /\ Cardinality(workspaces)
          = Cardinality({l \in LaneIds : lanes[l].pc \in {"compile", "spawn", "running"}})

C23_Witness ==
    \E l \in LaneIds, m \in LaneIds :
        /\ lanes[l].submission_id # lanes[m].submission_id
        /\ RunEnded(l) /\ RunEnded(m)
        /\ Len(test_cases) = 3
        /\ Sub(l).status = "Accepted" /\ Len(lanes[l].log_ids) = 3
        /\ Sub(m).status = "WrongAnswer" /\ Len(lanes[m].log_ids) = 1
        /\ Cardinality(execution_logs) = 4

\* C24: the aggregator of a run is Accepted whenever a test case is about to
\* be or is being evaluated; when it is not Accepted, the attempt that changed
\* it is the last one of the run, every attempt before it exited with 0 and
\* matched, and the run is at the row of that attempt, at its status write or
\* at its end: the state has changed once and no test case is evaluated after.
C24_OneTransition ==
    \A l \in LaneIds :
        LET tr == lanes[l].trace
        IN /\ lanes[l].overall_status \in {"Accepted", "WrongAnswer", "TimeLimitExceeded", "RuntimeError"}
           /\ lanes[l].pc \in {"find_submission", "validate_language", "find_test_cases",
                               "get_config", "acquire", "compile", "spawn", "running"}
                 => /\ lanes[l].overall_status = "Accepted"
                    /\ lanes[l].error_message = None
           /\ lanes[l].overall_status # "Accepted" =>
                 /\ tr # <<>>
                 /\ lanes[l].i + 1 = Len(tr)
                 /\ \A k \in 1..(Len(tr) - 1) : PassedAttempt(l, tr[k])
                 /\ ~PassedAttempt(l, tr[Len(tr)])
                 /\ lanes[l].pc \in {"log_test_case", "final_update", "done"}
                 /\ lanes[l].pc = "log_test_case" => lanes[l].overall_status = "WrongAnswer"
                 /\ lanes[l].error_message # None
           /\ (lanes[l].overall_status = "Accepted" /\ tr # <<>>) =>
                 \A k \in 1..Len(tr) : PassedAttempt(l, tr[k])

C24_Witness ==
    \E l \in LaneIds :
        /\ RunEnded(l)
        /\ Len(TestsOf(l)) = 3
        /\ Len(lanes[l].trace) = 2
        /\ PassedAttempt(l, lanes[l].trace[1])
        /\ LastAttempt(l).res.exit_code = -1
        /\ lanes[l].overall_status = "RuntimeError"
        /\ lanes[l].writes[1].status = "RuntimeError"

\* C25: a run writes TimeLimitExceeded only when in one of its attempts the
\* child was still running when time_limit had elapsed.
C25_TimeLimitOnlyOnExpiry ==
    \A l \in LaneIds :
        (RunEnded(l) /\ lanes[l].writes[1].status = "TimeLimitExceeded")
        => \E k \in 1..Len(lanes[l].trace) :
              /\ lanes[l].trace[k].kind \in {"completed", "timeout"}
              /\ lanes[l].trace[k].elapsed >= ConfigOf(l).time_limit

\* C28: a row written for an attempt on a test case has exit code 0 and
\* verdict Accepted, without error_message, or WrongAnswer, with error_message
\* "Test case i failed" where i is the place of the test case counted from 1;
\* a row with another verdict is a pre-flight row, is RuntimeError and is the
\* only row of its run.
C28_AttemptRows ==
    \A l \in LaneIds : \A k \in 1..Len(lanes[l].log_ids) :
        LET row == RowsOf(l)[k]
        IN IF lanes[l].trace # <<>>
           THEN /\ row.exit_code = Some(0)
                /\ lanes[l].trace[k].test = k
                /\ lanes[l].trace[k].res.exit_code = 0
                /\ \/ row.status = "Accepted" /\ row.error_message = None
                   \/ /\ row.status = "WrongAnswer"
                      /\ row.error_message = Some(<<"Test case ", ToString(k), " failed">>)
           ELSE /\ row.status = "RuntimeError"
                /\ row.exit_code = None
                /\ Len(lanes[l].log_ids) = 1
                /\ lanes[l].runs = 0

C28_Witness ==
    \E l \in LaneIds :
        /\ RunEnded(l)
        /\ Len(lanes[l].log_ids) = 3
        /\ RowsOf(l)[1].status = "Accepted"
        /\ RowsOf(l)[3].status = "WrongAnswer"
        /\ RowsOf(l)[3].error_message = Some(<<"Test case ", "3", " failed">>)
        /\ RowsOf(l)[3].exit_code = Some(0)

\* C29: a run of a submission in a language that is in the language store
\* and has no compile/run recipe runs nothing and writes RuntimeError.
C29_NoRecipeUnsupported ==
    \A l \in LaneIds :
        ( /\ RunEnded(l)
          /\ Sub(l).language_id \in LanguageStore
          /\ Sub(l).language_id \notin {"python", "c", "rust", "go", "typescript"} )
        => /\ lanes[l].writes[1].status = "RuntimeError"
           /\ lanes[l].runs = 0

\* C30: a submission that holds WrongAnswer has been judged by a run that has
\* ended and saw an attempt exit with 0 and print an output that did not match.
C30_WrongAnswerJudged ==
    \A s \in DOMAIN submissions :
        submissions[s].status = "WrongAnswer"
        => \E l \in LaneIds :
              /\ lanes[l].submission_id = s
              /\ RunEnded(l)
              /\ lanes[l].trace # <<>>
              /\ MismatchAttempt(l, LastAttempt(l))

\* C27: with several lanes judging one submission, the four stored fields of
\* the submission are, in every state, those it was created with or, all
\* four, those of one status write of one of its lanes.
C27_WholeTuple ==
    \A s \in DOMAIN submissions :
        LET fields == [f \in {"status", "execution_time", "memory_used", "error_message"} |->
                          submissions[s][f]]
        IN \/ fields = [status |-> "WrongAnswer", execution_time |-> <<>>,
                        memory_used |-> <<>>, error_message |-> <<>>]
           \/ \E l \in LaneIds :
                 /\ lanes[l].submission_id = s
                 /\ \E k \in 1..Len(lanes[l].writes) : fields = lanes[l].writes[k]

C27_Witness ==
    \E l \in LaneIds, m \in LaneIds :
        /\ l # m
        /\ lanes[l].submission_id = lanes[m].submission_id
        /\ RunEnded(l) /\ RunEnded(m)
        /\ lanes[l].writes[1].status = "Accepted"
        /\ lanes[m].writes[1].status = "RuntimeError"
        /\ lanes[l].writes[1].execution_time # lanes[m].writes[1].execution_time
        /\ lanes[l].writes[1].memory_used # lanes[m].writes[1].memory_used
        /\ lanes[l].writes[1].error_message # lanes[m].writes[1].error_message
        /\ [f \in {"status", "execution_time", "memory_used", "error_message"} |-> Sub(l)[f]]
              = lanes[l].writes[1]

\* C26: a lane started for an existing submission leads to that lane having
\* ended with one status write applied, which the submission holds.
C26_Terminates ==
    \A n \in 1..MaxLanes :
        (n \in LaneIds /\ HasSubmission(n))
        ~> ( /\ n \in LaneIds
             /\ lanes[n].pc \in {"done", "done_err"}
             /\ Len(lanes[n].writes) = 1 )

====
